---------------------------- MODULE Spec2Model ----------------------------
(***************************************************************************)
(* A model of j2toggl_core/tempo_api_client.py (class TempoClient): the    *)
(* paginated fetch get_worklogs, the record translator in both directions  *)
(* (_load_worklogs_page, __worklog_to_dict with _get_issue_id_from_key)    *)
(* and the mutation calls add_worklog, update_worklog, delete_worklog.     *)
(*                                                                         *)
(* Conventions.                                                            *)
(*  - A Python str that the code inspects (issue keys, activity values,    *)
(*    the time-of-day string) is a sequence of character codes, so that    *)
(*    startswith, split, int(), quote and unquote are computed, not        *)
(*    assumed.  A str the code only passes along is a TLA+ string.         *)
(*  - A Python value that may be None is None == <<>> or Some(v) == <<v>>. *)
(*  - A JSON object / dict is a function on its keys; "k in d" is          *)
(*    k \in DOMAIN d.                                                      *)
(*  - A naive datetime is its number of seconds since a fixed midnight.    *)
(***************************************************************************)
EXTENDS Integers, Sequences, FiniteSets, TLC

VARIABLES
    \* ---- get_worklogs (one call) ----
    fpc,          \* position of the call: "idle", "loop", "returned", "raised"
    total,        \* records the remote holds for the queried range and user
    range,        \* <<start_date, end_date>> of the call
    page_index,   \* local page_index
    tsr_list,     \* local tsr_list
    exchanges,    \* page requests sent so far, each with the status received
    delivered,    \* what the caller received: None, or Some(list of WorkLog)
    fetchError,   \* "" or the kind of SyncException raised
    \* ---- record translator (read and write direction) ----
    tpc,          \* "start", "have_wire" (a record to read), "supplied" or
                  \* "loaded" (a WorkLog from the caller or from a read),
                  \* "have_data" (a written dict), "raised"
    wire,         \* the wire record at hand (None when there is none)
    wl,           \* the WorkLog at hand (None when there is none)
    data,         \* the dict built by __worklog_to_dict (None when none)
    orig,         \* the WorkLog the caller supplied (None when none)
    keyOrigin,    \* which statement set wl.key: "issue.key", "issue.id",
                  \* "caller", or "none" when the key was left unset
    texc,         \* "" or the exception the translator raised
    \* ---- mutation client ----
    worklog,      \* the WorkLog object the caller passes to add/update/delete
    remote,       \* ids of the records of this WorkLog in the remote store
    lastCall,     \* [op, status, resp_id, before] of the last call, or None
    sent,         \* worklog-endpoint requests sent by the last call
    ret,          \* how the last call ended: "True", "False" (its return
                  \* value), the name of the exception it raised, "" before
                  \* the first call
    ops,          \* calls made so far
    \* ---- shared ----
    lookups       \* issue keys sent to the issue lookup endpoint by the last
                  \* write-direction call

fetchVars == <<fpc, total, range, page_index, tsr_list, exchanges, delivered, fetchError>>
transVars == <<tpc, wire, wl, data, orig, keyOrigin, texc>>
mutVars   == <<worklog, remote, lastCall, sent, ret, ops>>
vars      == <<fetchVars, transVars, mutVars, lookups>>

-----------------------------------------------------------------------------
(* Bounds of the model *)

MaxRecords == 120       \* records the remote holds: 0 .. MaxRecords
MaxActivityLen == 3     \* longest activity string
MaxSuffixLen == 2       \* longest text after the "-" of an issue key
MaxOps == 3             \* mutation calls in one behaviour

(* Program constants *)

PAGE_SIZE == 50         \* TempoClient.__PAGE_SIZE
HTTP_OK == 200          \* HTTPStatus.OK

-----------------------------------------------------------------------------
(* Optional values *)

None == <<>>
Some(v) == <<v>>
Val(o) == o[1]

-----------------------------------------------------------------------------
(* str operations, on sequences of character codes *)

\* "ISSUE-"
ISSUE_PREFIX == <<73, 83, 83, 85, 69, 45>>

\* s.startswith(p)
StartsWith(s, p) == Len(s) >= Len(p) /\ SubSeq(s, 1, Len(p)) = p

\* index of the first c in s at or after i, 0 when there is none
RECURSIVE Find(_, _, _)
Find(s, c, i) ==
    IF i > Len(s) THEN 0
    ELSE IF s[i] = c THEN i
    ELSE Find(s, c, i + 1)

\* s.split("-", 1)[1]: the text after the first "-" (45).  The code calls it
\* only on a key that starts with "ISSUE-", which holds a "-".
SplitOnceSecond_AllSplits(s) ==
    LET i == Find(s, 45, 1)
        j == Find(s, 45, i + 1)
    IN  SubSeq(s, i + 1, IF j = 0 THEN Len(s) ELSE j - 1)

SplitOnceSecond(s) ==
    LET i == Find(s, 45, 1)
    IN  SubSeq(s, i + 1, Len(s))

\* str(n) for a natural n, and for any integer (the f-string of an int)
RECURSIVE NatToStr(_)
NatToStr(n) ==
    IF n < 10 THEN <<48 + n>>
    ELSE NatToStr(n \div 10) \o <<48 + (n % 10)>>

IntToStr(n) == IF n < 0 THEN <<45>> \o NatToStr(-n) ELSE NatToStr(n)

IsDigit(c) == c \in 48..57

\* int(s) succeeds: an optional sign, then one or more digits.  (Python also
\* accepts surrounding blanks and single underscores between digits; no string
\* of the model holds a blank or an underscore.)
IsIntLiteral(s) ==
    LET body == IF s # <<>> /\ s[1] \in {45, 43} THEN Tail(s) ELSE s
    IN  /\ body # <<>>
        /\ \A i \in 1..Len(body) : IsDigit(body[i])

RECURSIVE DigitsToNat(_)
DigitsToNat(s) ==
    IF s = <<>> THEN 0
    ELSE 10 * DigitsToNat(SubSeq(s, 1, Len(s) - 1)) + (s[Len(s)] - 48)

\* int(s), for s with IsIntLiteral(s)
StrToInt(s) ==
    IF s[1] = 45 THEN 0 - DigitsToNat(Tail(s))
    ELSE IF s[1] = 43 THEN DigitsToNat(Tail(s))
    ELSE DigitsToNat(s)

\* urllib.parse.quote(s, safe=''): every character but A-Z a-z 0-9 _ . - ~
\* becomes %XX, upper-case hex of its code (the strings of the model are ASCII,
\* where the UTF-8 encoding of a character is its code).
IsUnreserved(c) ==
    \/ c \in 48..57
    \/ c \in 65..90
    \/ c \in 97..122
    \/ c \in {95, 46, 45, 126}

HexDigit(n) == IF n < 10 THEN 48 + n ELSE 55 + n

QuoteChar(c) ==
    IF IsUnreserved(c) THEN <<c>>
    ELSE <<37, HexDigit(c \div 16), HexDigit(c % 16)>>

RECURSIVE quote(_)
quote(s) == IF s = <<>> THEN <<>> ELSE QuoteChar(Head(s)) \o quote(Tail(s))

\* urllib.parse.unquote(s): each %XX with two hex digits (either case) becomes
\* the character of that code; anything else is kept.  A decoded byte of 128 or
\* more that is no valid UTF-8 (always so for the bytes the model's alphabet can
\* spell: A2, AA) becomes U+FFFD, errors='replace'.
IsHex(c) == c \in 48..57 \/ c \in 65..70 \/ c \in 97..102

HexVal(c) ==
    IF c \in 48..57 THEN c - 48
    ELSE IF c \in 65..70 THEN c - 55
    ELSE c - 87

DecodedChar(b) == IF b < 128 THEN b ELSE 65533

RECURSIVE unquote(_)
unquote(s) ==
    IF s = <<>> THEN <<>>
    ELSE IF Head(s) = 37 /\ Len(s) >= 3 /\ IsHex(s[2]) /\ IsHex(s[3])
         THEN <<DecodedChar(16 * HexVal(s[2]) + HexVal(s[3]))>>
                  \o unquote(SubSeq(s, 4, Len(s)))
    ELSE <<Head(s)>> \o unquote(Tail(s))

-----------------------------------------------------------------------------
(* datetime operations *)

\* dt.strftime("%Y-%m-%d").  The ten characters spell the calendar day and
\* nothing else, one string per day: the string is kept as its day number.
DateStr(t) == [ymd |-> t \div 86400]

TwoDigits(n) == <<48 + (n \div 10), 48 + (n % 10)>>

\* dt.strftime("%H:%M:%S") as the remote writes a time of day
ClockStr(h, m, s) == TwoDigits(h) \o <<58>> \o TwoDigits(m) \o <<58>> \o TwoDigits(s)

\* dt.strftime("%H:%M:00"): hour and minute, then the literal ":00"
TimeStr_WithSeconds(t) ==
    ClockStr((t % 86400) \div 3600, (t % 3600) \div 60, t % 60)

TimeStr(t) ==
    TwoDigits((t % 86400) \div 3600) \o <<58>> \o TwoDigits((t % 3600) \div 60)
        \o <<58, 48, 48>>

Num2(a, b) == 10 * (a - 48) + (b - 48)

\* dateutil.parser.parse(startDate + "T" + startTime) for a date string and an
\* "HH:MM:SS" time string
ParseDateTime(d, c) ==
    d.ymd * 86400 + Num2(c[1], c[2]) * 3600 + Num2(c[4], c[5]) * 60 + Num2(c[7], c[8])

-----------------------------------------------------------------------------
(* WorkLog (j2toggl_core.worklog).  The class is not among the sources; a    *)
(* fresh WorkLog() holds None in every field, as the data model describes.   *)

NewWorkLog ==
    [second_id |-> None, key |-> None, description |-> None,
     startTime |-> None, endTime |-> None, duration |-> None, activity |-> None]

-----------------------------------------------------------------------------
(* Read direction: TempoClient._load_worklogs_page *)

\* the subscripts tempo_record[...] of the loop body: a missing one is a KeyError
RequiredFields ==
    {"tempoWorklogId", "description", "timeSpentSeconds", "startDate", "startTime"}

RaisesKeyError(r) == ~(RequiredFields \subseteq DOMAIN r)

\* which statement sets wl.key
KeyBranch(r) ==
    IF "issue" \in DOMAIN r
    THEN IF "key" \in DOMAIN r.issue THEN "issue.key"
         ELSE IF "id" \in DOMAIN r.issue THEN "issue.id"
         ELSE "none"
    ELSE "none"

\* f"ISSUE-{tempo_record['issue']['id']}"
SentinelKey(id) == ISSUE_PREFIX \o IntToStr(id)

LoadKey(r) ==
    CASE KeyBranch(r) = "issue.key" -> Some(r.issue.key)
      [] KeyBranch(r) = "issue.id"  -> Some(SentinelKey(r.issue.id))
      [] OTHER                      -> None

\* next((x for x in attributes if x["key"] == "_Activity_"), None)
RECURSIVE FirstActivity(_)
FirstActivity(values) ==
    IF values = <<>> THEN None
    ELSE IF Head(values).key = "_Activity_" THEN Some(Head(values))
    ELSE FirstActivity(Tail(values))

LoadActivity(r) ==
    IF /\ "attributes" \in DOMAIN r
       /\ "values" \in DOMAIN r.attributes
       /\ r.attributes.values # <<>>
    THEN LET activity_attr == FirstActivity(r.attributes.values)
         IN  IF activity_attr # None
             THEN Some(unquote(Val(activity_attr).value))
             ELSE None
    ELSE None

\* end = start + datetime.timedelta(seconds=duration)
EndOf(start, duration) == start + duration

\* the body of the loop, for a record with every required field
LoadWorklog(r) ==
    LET duration == r.timeSpentSeconds
        start    == ParseDateTime(r.startDate, r.startTime)
    IN  [NewWorkLog EXCEPT
            !.second_id   = Some(r.tempoWorklogId),
            !.key         = LoadKey(r),
            !.description = Some(r.description),
            !.startTime   = Some(start),
            !.endTime     = Some(EndOf(start, duration)),
            !.duration    = Some(duration),
            !.activity    = LoadActivity(r)]

\* _load_worklogs_page(page) for a page none of whose records raises
RECURSIVE LoadWorklogsPage(_)
LoadWorklogsPage(page) ==
    IF page = <<>> THEN <<>>
    ELSE <<LoadWorklog(Head(page))>> \o LoadWorklogsPage(Tail(page))

-----------------------------------------------------------------------------
(* Issue Key Resolver: TempoClient._get_issue_id_from_key *)

\* Python truthiness of a str
Truthy(s) == s # <<>>

\* The value returned for a truthy key, given the response of the lookup:
\* issue_data.get("id") on 200, None on any other status.
GetIssueIdFromKey(resp) ==
    IF resp.status = HTTP_OK
    THEN IF "id" \in DOMAIN resp.body THEN Some(resp.body.id) ELSE None
    ELSE None

-----------------------------------------------------------------------------
(* Write direction: TempoClient.__worklog_to_dict *)

\* self._user.account_id
AccountId == "account-1"

\* JSON values of the issueId field: an int (decoded from the sentinel) or the
\* value the issue lookup returned (Jira gives the id as a string)
JInt(n) == [int |-> n]
JStr(s) == [str |-> s]

BaseData(w) ==
    [timeSpentSeconds |-> Val(w.duration),
     startDate        |-> DateStr(Val(w.startTime)),
     startTime        |-> TimeStr(Val(w.startTime)),
     description      |-> Val(w.description),
     authorAccountId  |-> AccountId]

ActivityValue(a) == quote(a)

WithAttributes(w, d) ==
    IF w.activity # None
    THEN d @@ ("attributes" :>
                 <<[key |-> "_Activity_", value |-> ActivityValue(Val(w.activity))]>>)
    ELSE d

\* worklog.key and worklog.key.startswith("ISSUE-")
IsSentinel(key) == key # None /\ Truthy(Val(key)) /\ StartsWith(Val(key), ISSUE_PREFIX)

\* The call on worklog w, the issue lookup answering resp when it is asked.
\* Result: [raised, data, lookups]; raised is "" or the exception's name, and
\* lookups the keys sent to the issue lookup endpoint.
WorklogToDict(w, resp) ==
    LET d == WithAttributes(w, BaseData(w))
    IN  IF IsSentinel(w.key)
        THEN LET issue_id == SplitOnceSecond(Val(w.key))
             IN  IF IsIntLiteral(issue_id)
                 THEN [raised |-> "", lookups |-> <<>>,
                       data |-> d @@ ("issueId" :> JInt(StrToInt(issue_id)))]
                 ELSE [raised |-> "ValueError", lookups |-> <<>>, data |-> None]
        ELSE IF w.key # None /\ Truthy(Val(w.key))
        THEN LET issue_id == GetIssueIdFromKey(resp)
             IN  IF issue_id # None /\ Truthy(Val(issue_id))
                 THEN [raised |-> "", lookups |-> <<Val(w.key)>>,
                       data |-> d @@ ("issueId" :> JStr(Val(issue_id)))]
                 ELSE [raised |-> "", lookups |-> <<Val(w.key)>>,
                       data |-> d @@ ("issueKey" :> Val(w.key))]
        ELSE [raised |-> "", lookups |-> <<>>, data |-> d]

-----------------------------------------------------------------------------
(* The values the translator is exercised on *)

\* all strings over alphabet A of length at most n
StringsUpTo(A, n) == UNION {[1..k -> A] : k \in 0..n}

\* activity strings: "a", "%" and "2" spell plain text, text that needs
\* escaping, and text that reads as an escape ("%22", "%2a")
ActivityStrings == StringsUpTo({97, 37, 50}, MaxActivityLen)

\* issue keys: "ISSUE-", "AB-" or nothing, then text over "7", "-", "X"
KeyStrings ==
    {p \o x : p \in {ISSUE_PREFIX, <<65, 66, 45>>, <<>>},
              x \in StringsUpTo({55, 45, 88}, MaxSuffixLen)}

\* start times: 10:30:00 and 10:30:15 of day 0, 23:59:59 of day 1
StartTimes == {37800, 37815, 172799}

Durations == {0, 90}

\* WorkLogs a caller builds for a pending write: every key with a fixed
\* activity or none, and every activity with a fixed key or none
CallerWorkLog(k, t, d, a) ==
    [NewWorkLog EXCEPT
        !.key = k, !.description = Some("fix"), !.startTime = Some(t),
        !.endTime = Some(t + d), !.duration = Some(d), !.activity = a]

CallerWorkLogs ==
    {CallerWorkLog(k, t, d, a) :
       k \in {None} \cup {Some(x) : x \in KeyStrings},
       t \in StartTimes, d \in Durations, a \in {None, Some(<<97, 37>>)}}
    \cup
    {CallerWorkLog(k, t, d, a) :
       k \in {None, Some(<<65, 66, 45, 55>>)},
       t \in StartTimes, d \in Durations,
       a \in {None} \cup {Some(x) : x \in ActivityStrings}}

\* answers of the issue lookup endpoint: the issue with its id, a 200 whose
\* body has no id or an empty one, and a failure
ResolverResponses ==
    {[status |-> 200, body |-> [id |-> <<49, 48>>]],
     [status |-> 200, body |-> [id |-> <<>>]],
     [status |-> 200, body |-> <<>>],
     [status |-> 404, body |-> <<>>]}

\* ids the remote assigns to worklogs
RemoteIds == {41, 42}

\* issue objects of a wire record
WireIds == {-5, 0, 7, 10001}

WireKeys == {<<65, 66, 45, 55>>, <<73, 83, 83, 85, 69, 45, 55>>,
             <<73, 83, 83, 85, 69, 45, 88>>, <<>>}

WireIssues ==
    {[id |-> n] : n \in WireIds} \cup {[key |-> k] : k \in WireKeys}
        \cup {[key |-> k, id |-> n] : k \in WireKeys, n \in {7}} \cup {<<>>}

Attr(k, v) == [key |-> k, value |-> v]

\* attributes objects of a wire record
WireAttributes ==
    {[values |-> <<Attr("_Activity_", v)>>] : v \in ActivityStrings}
        \cup {[values |-> <<>>],
              [values |-> <<Attr("_Other_", <<97>>)>>],
              [values |-> <<Attr("_Other_", <<97>>), Attr("_Activity_", <<37, 50, 50>>)>>],
              <<>>}

WireBase(t, d) ==
    [tempoWorklogId |-> 41, description |-> "fix", timeSpentSeconds |-> d,
     startDate |-> DateStr(t),
     startTime |-> ClockStr((t % 86400) \div 3600, (t % 3600) \div 60, t % 60)]

\* f without its key k
Without(f, k) == [x \in DOMAIN f \ {k} |-> f[x]]

\* records the read endpoint may hold: every shape of issue and attributes
\* (each present or absent), any sign of timeSpentSeconds, and records that
\* lack a required field
WireRecords ==
    LET bases == {WireBase(t, d) : t \in StartTimes, d \in Durations \cup {-60}}
        withIssue == bases \cup {b @@ ("issue" :> i) : b \in bases, i \in WireIssues}
        full == withIssue \cup
                  {b @@ ("attributes" :> a) : b \in withIssue, a \in WireAttributes}
    IN  full \cup {Without(WireBase(37800, 90), k) : k \in RequiredFields}

\* The record the read endpoint holds once the remote has stored a written
\* dict under the id it assigned: the same fields, the attributes list under
\* attributes.values, the issue as an object.
StoredRecord(d, id) ==
    LET core == [tempoWorklogId |-> id, description |-> d.description,
                 timeSpentSeconds |-> d.timeSpentSeconds,
                 startDate |-> d.startDate, startTime |-> d.startTime]
        attrs == IF "attributes" \in DOMAIN d
                 THEN ("attributes" :> [values |-> d.attributes])
                 ELSE <<>>
        issue == IF "issueId" \in DOMAIN d
                 THEN IF "int" \in DOMAIN d.issueId
                      THEN ("issue" :> [id |-> d.issueId.int])
                      ELSE IF IsIntLiteral(d.issueId.str)
                      THEN ("issue" :> [id |-> StrToInt(d.issueId.str)])
                      ELSE <<>>
                 ELSE IF "issueKey" \in DOMAIN d
                 THEN ("issue" :> [key |-> d.issueKey])
                 ELSE <<>>
    IN  core @@ attrs @@ issue

-----------------------------------------------------------------------------
(* The translator as a state machine: a WorkLog comes from the caller or is *)
(* read from a wire record, is written to a dict, and the stored dict is    *)
(* read again.                                                              *)

TransInit ==
    /\ tpc = "start"
    /\ wire = None
    /\ wl = None
    /\ data = None
    /\ orig = None
    /\ keyOrigin = "none"
    /\ texc = ""

\* the caller builds a WorkLog for a pending write
CallerSupplies(w) ==
    /\ tpc = "start"
    /\ wl' = Some(w)
    /\ orig' = Some(w)
    /\ keyOrigin' = IF w.key = None THEN "none" ELSE "caller"
    /\ tpc' = "supplied"
    /\ UNCHANGED <<wire, data, texc, lookups>>

\* the read endpoint returns record r
RemoteReturns(r) ==
    /\ tpc = "start"
    /\ wire' = Some(r)
    /\ tpc' = "have_wire"
    /\ UNCHANGED <<wl, data, orig, keyOrigin, texc, lookups>>

\* _load_worklogs_page([wire])
ReadRecord ==
    /\ tpc = "have_wire"
    /\ IF RaisesKeyError(Val(wire))
       THEN /\ tpc' = "raised"
            /\ texc' = "KeyError"
            /\ UNCHANGED <<wl, keyOrigin>>
       ELSE /\ wl' = Some(LoadWorklogsPage(<<Val(wire)>>)[1])
            /\ keyOrigin' = KeyBranch(Val(wire))
            /\ tpc' = "loaded"
            /\ UNCHANGED texc
    /\ UNCHANGED <<wire, data, orig, lookups>>

\* __worklog_to_dict(wl), the issue lookup answering resp if it is asked
WriteRecord(resp) ==
    /\ tpc \in {"supplied", "loaded"}
    /\ LET res == WorklogToDict(Val(wl), resp)
       IN  /\ lookups' = res.lookups
           /\ IF res.raised # ""
              THEN /\ tpc' = "raised"
                   /\ texc' = res.raised
                   /\ UNCHANGED data
              ELSE /\ data' = Some(res.data)
                   /\ tpc' = "have_data"
                   /\ UNCHANGED texc
    /\ UNCHANGED <<wire, wl, orig, keyOrigin>>

\* the remote stores the dict under id and the read endpoint returns it
RemoteStores(id) ==
    /\ tpc = "have_data"
    /\ wire' = Some(StoredRecord(Val(data), id))
    /\ tpc' = "have_wire"
    /\ UNCHANGED <<wl, data, orig, keyOrigin, texc, lookups>>

-----------------------------------------------------------------------------
(* Mutation client: add_worklog, update_worklog, delete_worklog *)

\* a Python bool as the caller sees it
PyBool(b) == IF b THEN "True" ELSE "False"

\* final statuses a response may carry
Statuses == {101, 200, 201, 204, 304, 400, 404, 500}

\* the remote applied the request
Accepted(status) == status \in 200..299

\* requests.Response.ok: raise_for_status() would not raise, that is the status
\* is no 4xx and no 5xx
ResponseOk(status) == ~(status \in 400..599)

\* __make_tempo_api_uri("worklogs/{worklog_id}".format(worklog_id=worklog.second_id))
WorklogUri(second_id) == <<"worklogs", second_id>>

\* the id a worklog uri addresses is the id of a stored record
Addresses(second_id) == second_id # None /\ Val(second_id) \in remote

\* add_worklog and update_worklog: r.status_code == HTTPStatus.OK
WriteSucceeded(status) == status = HTTP_OK

\* delete_worklog: return r.ok
DeleteResult_OnlyOK(status) == status = HTTP_OK

DeleteResult(status) == ResponseOk(status)

\* add_worklog(worklog): the issue lookup answers resp if asked; the POST gets
\* `status` and, on 200, a body whose tempoWorklogId is rid.  A remote that
\* accepts the POST stores a new record under rid.
AddWorklog(resp, status, rid) ==
    /\ ops < MaxOps
    /\ Accepted(status) => rid \notin remote
    /\ ops' = ops + 1
    /\ LET res == WorklogToDict(worklog, resp)
       IN  /\ lookups' = res.lookups
           /\ IF res.raised # ""
              THEN /\ sent' = <<>>
                   /\ ret' = res.raised
                   /\ lastCall' = Some([op |-> "add", status |-> 0, resp_id |-> None,
                                        before |-> worklog])
                   /\ UNCHANGED <<worklog, remote>>
              ELSE /\ sent' = <<[method |-> "POST", uri |-> <<"worklogs">>,
                                 json |-> Some(res.data)]>>
                   /\ remote' = IF Accepted(status) THEN remote \cup {rid} ELSE remote
                   /\ lastCall' = Some([op |-> "add", status |-> status,
                                        resp_id |-> IF Accepted(status) THEN Some(rid) ELSE None,
                                        before |-> worklog])
                   /\ IF WriteSucceeded(status)
                      THEN /\ worklog' = [worklog EXCEPT !.second_id = Some(rid)]
                           /\ ret' = "True"
                      ELSE /\ ret' = "False"
                           /\ UNCHANGED worklog

\* update_worklog(worklog): as add_worklog, with a PUT to the uri of
\* worklog.second_id.  The remote accepts only a PUT that addresses a stored
\* record; the id of its answer, rid, is the record's id from then on.
UpdateWorklog(resp, status, rid) ==
    /\ ops < MaxOps
    /\ Accepted(status) => Addresses(worklog.second_id)
    /\ ops' = ops + 1
    /\ LET res == WorklogToDict(worklog, resp)
       IN  /\ lookups' = res.lookups
           /\ IF res.raised # ""
              THEN /\ sent' = <<>>
                   /\ ret' = res.raised
                   /\ lastCall' = Some([op |-> "update", status |-> 0, resp_id |-> None,
                                        before |-> worklog])
                   /\ UNCHANGED <<worklog, remote>>
              ELSE /\ sent' = <<[method |-> "PUT", uri |-> WorklogUri(worklog.second_id),
                                 json |-> Some(res.data)]>>
                   /\ remote' = IF Accepted(status)
                                THEN (remote \ {Val(worklog.second_id)}) \cup {rid}
                                ELSE remote
                   /\ lastCall' = Some([op |-> "update", status |-> status,
                                        resp_id |-> IF Accepted(status) THEN Some(rid) ELSE None,
                                        before |-> worklog])
                   /\ IF WriteSucceeded(status)
                      THEN /\ worklog' = [worklog EXCEPT !.second_id = Some(rid)]
                           /\ ret' = "True"
                      ELSE /\ ret' = "False"
                           /\ UNCHANGED worklog

\* delete_worklog(worklog): a DELETE to the uri of worklog.second_id.  The
\* remote accepts only a DELETE that addresses a stored record, and removes it.
DeleteWorklog(status) ==
    /\ ops < MaxOps
    /\ Accepted(status) => Addresses(worklog.second_id)
    /\ ops' = ops + 1
    /\ sent' = <<[method |-> "DELETE", uri |-> WorklogUri(worklog.second_id),
                  json |-> None]>>
    /\ remote' = IF Accepted(status) THEN remote \ {Val(worklog.second_id)} ELSE remote
    /\ ret' = PyBool(DeleteResult(status))
    /\ lastCall' = Some([op |-> "delete", status |-> status, resp_id |-> None,
                         before |-> worklog])
    /\ lookups' = <<>>
    /\ UNCHANGED worklog

\* WorkLogs handed to the mutation client: a key of each kind (none, empty,
\* a plain key, "ISSUE-" with digits, "ISSUE-" with other text), with and
\* without an activity
MutationKeys ==
    {None, Some(<<>>), Some(<<65, 66, 45, 55>>),
     Some(<<73, 83, 83, 85, 69, 45, 55>>), Some(<<73, 83, 83, 85, 69, 45, 88>>)}

MutationWorkLogs ==
    {[NewWorkLog EXCEPT
         !.key = k, !.description = Some("fix"), !.startTime = Some(37815),
         !.endTime = Some(37905), !.duration = Some(90), !.activity = a] :
       k \in MutationKeys, a \in {None, Some(<<97, 37>>)}}

\* a WorkLog built by the caller and not yet stored, or one read from the
\* remote, which holds it under id 41
MutInit ==
    /\ \E w \in MutationWorkLogs :
          \/ worklog = w /\ remote = {}
          \/ worklog = [w EXCEPT !.second_id = Some(41)] /\ remote = {41}
    /\ lastCall = None
    /\ sent = <<>>
    /\ ret = ""
    /\ ops = 0

-----------------------------------------------------------------------------
(* Paginated fetch: get_worklogs *)

\* date ranges of a call, <<start_date, end_date>>
DateRanges == {<<0, 172799>>, <<90000, 93600>>}

\* the i-th record the remote holds for the range, as the read endpoint gives it
ServerRecord(i) ==
    [tempoWorklogId |-> i, issue |-> [id |-> 10000 + i], description |-> "fix",
     timeSpentSeconds |-> 60 * (i % 3), startDate |-> DateStr(0),
     startTime |-> ClockStr(i % 24, i % 60, 0)]

\* the results of the page a request with this offset and limit gets
ServerPage(offset, limit) ==
    LET last == IF offset + limit < total THEN offset + limit ELSE total
    IN  [k \in 1..(IF last > offset THEN last - offset ELSE 0) |-> ServerRecord(offset + k)]

\* r.status_code != HTTPStatus.OK
HttpFailed_Only4xx5xx(status) == status >= 400

HttpFailed(status) == status # HTTP_OK

\* records_count < self.__PAGE_SIZE
LastPage_OrFull(records_count) == records_count <= PAGE_SIZE

LastPage(records_count) == records_count < PAGE_SIZE

\* the params of the request for the current page
PageParams ==
    [from |-> DateStr(range[1]), to |-> DateStr(range[2]),
     offset |-> page_index * PAGE_SIZE, limit |-> PAGE_SIZE, userId |-> AccountId]

FetchInit ==
    /\ fpc = "idle"
    /\ total \in 0..MaxRecords
    /\ range \in DateRanges
    /\ page_index = 0
    /\ tsr_list = <<>>
    /\ exchanges = <<>>
    /\ delivered = None
    /\ fetchError = ""

\* the call, up to the loop
GetWorklogsCall ==
    /\ fpc = "idle"
    /\ fpc' = "loop"
    /\ page_index' = 0
    /\ tsr_list' = <<>>
    /\ UNCHANGED <<total, range, exchanges, delivered, fetchError>>

\* one pass of the loop: the request gets `status`; a 200 carries the page
\* and its count, an integer (the number of records on the page) when intCount
GetWorklogsPage(status, intCount) ==
    /\ fpc = "loop"
    /\ exchanges' = Append(exchanges, [params |-> PageParams, status |-> status])
    /\ IF HttpFailed(status)
       THEN /\ fpc' = "raised"
            /\ fetchError' = "http"
            /\ UNCHANGED <<page_index, tsr_list, delivered>>
       ELSE LET results == ServerPage(PageParams.offset, PageParams.limit)
                records_count == Len(results)
            IN  IF ~intCount
                THEN /\ fpc' = "raised"
                     /\ fetchError' = "count"
                     /\ UNCHANGED <<page_index, tsr_list, delivered>>
                ELSE /\ tsr_list' = tsr_list \o LoadWorklogsPage(results)
                     /\ page_index' = page_index + 1
                     /\ UNCHANGED fetchError
                     /\ IF LastPage(records_count)
                        THEN /\ fpc' = "returned"
                             /\ delivered' = Some(tsr_list')
                        ELSE /\ fpc' = "loop"
                             /\ UNCHANGED delivered
    /\ UNCHANGED <<total, range>>

-----------------------------------------------------------------------------
(* Specifications: one per component, the other components at rest *)

FetchIdle ==
    /\ fpc = "idle"
    /\ total = 0
    /\ range = <<0, 0>>
    /\ page_index = 0
    /\ tsr_list = <<>>
    /\ exchanges = <<>>
    /\ delivered = None
    /\ fetchError = ""

MutIdle ==
    /\ worklog = NewWorkLog
    /\ remote = {}
    /\ lastCall = None
    /\ sent = <<>>
    /\ ret = ""
    /\ ops = 0

InitFetch == FetchInit /\ TransInit /\ MutIdle /\ lookups = <<>>

NextFetch ==
    \/ GetWorklogsCall /\ UNCHANGED <<transVars, mutVars, lookups>>
    \/ \E status \in Statuses, intCount \in BOOLEAN :
          GetWorklogsPage(status, intCount) /\ UNCHANGED <<transVars, mutVars, lookups>>

SpecFetch == InitFetch /\ [][NextFetch]_vars

InitTranslate == TransInit /\ FetchIdle /\ MutIdle /\ lookups = <<>>

NextTranslate ==
    \/ /\ tpc = "start"
       /\ \E w \in CallerWorkLogs : CallerSupplies(w)
       /\ UNCHANGED <<fetchVars, mutVars>>
    \/ /\ tpc = "start"
       /\ \E r \in WireRecords : RemoteReturns(r)
       /\ UNCHANGED <<fetchVars, mutVars>>
    \/ ReadRecord /\ UNCHANGED <<fetchVars, mutVars>>
    \/ \E resp \in ResolverResponses :
          WriteRecord(resp) /\ UNCHANGED <<fetchVars, mutVars>>
    \/ \E id \in RemoteIds : RemoteStores(id) /\ UNCHANGED <<fetchVars, mutVars>>

SpecTranslate == InitTranslate /\ [][NextTranslate]_vars

InitMutation == MutInit /\ FetchIdle /\ TransInit /\ lookups = <<>>

NextMutation ==
    \/ /\ ops < MaxOps
       /\ \E resp \in ResolverResponses, status \in Statuses, rid \in RemoteIds :
             AddWorklog(resp, status, rid)
       /\ UNCHANGED <<fetchVars, transVars>>
    \/ /\ ops < MaxOps
       /\ \E resp \in ResolverResponses, status \in Statuses, rid \in RemoteIds :
             UpdateWorklog(resp, status, rid)
       /\ UNCHANGED <<fetchVars, transVars>>
    \/ /\ ops < MaxOps
       /\ \E status \in Statuses : DeleteWorklog(status)
       /\ UNCHANGED <<fetchVars, transVars>>

SpecMutation == InitMutation /\ [][NextMutation]_vars

-----------------------------------------------------------------------------
(* Properties of get_worklogs, checked under SpecFetch *)

\* C1: with the remote holding `total` records and serving pages of at most
\* PAGE_SIZE whose count is the number of records on the page, the k-th
\* request carries offset (k-1)*PAGE_SIZE and limit PAGE_SIZE; the loop goes
\* on only while every page so far was full; and a call that returns has sent
\* total \div PAGE_SIZE + 1 requests and returns the `total` records, in order.
C1_PagesInOrderUntilShortPage ==
    /\ \A k \in 1..Len(exchanges) :
          /\ exchanges[k].params.offset = (k - 1) * PAGE_SIZE
          /\ exchanges[k].params.limit = PAGE_SIZE
          /\ exchanges[k].params.from = DateStr(range[1])
          /\ exchanges[k].params.to = DateStr(range[2])
    /\ fpc = "loop" => Len(exchanges) * PAGE_SIZE <= total
    /\ fpc = "returned" =>
          /\ Len(exchanges) = (total \div PAGE_SIZE) + 1
          /\ delivered = Some([i \in 1..total |-> LoadWorklog(ServerRecord(i))])

\* a call over 100 records has returned them after three requests, the third
\* for the empty page at offset 100
C1_Witness ==
    /\ fpc = "returned"
    /\ total = 100
    /\ Len(exchanges) = 3
    /\ exchanges[3].params.offset = 100
    /\ Len(Val(delivered)) = 100

\* C2: a page request answered with a status other than 200 is the last
\* request of the call, the call has raised the synchronization failure, and
\* the caller has received nothing.
C2_NonOkAbortsFetch ==
    \A k \in 1..Len(exchanges) :
        exchanges[k].status # HTTP_OK =>
            /\ k = Len(exchanges)
            /\ fpc = "raised"
            /\ fetchError = "http"
            /\ delivered = None

\* the second page was answered 500 after a first page of 50 records
C2_Witness ==
    /\ fpc = "raised"
    /\ Len(exchanges) = 2
    /\ exchanges[2].status = 500
    /\ Len(tsr_list) = 50
    /\ delivered = None

-----------------------------------------------------------------------------
(* Properties of the record translator, checked under SpecTranslate *)

\* t with its seconds cut off
WholeMinute(t) == t - (t % 60)

\* C4 as claimed: a WorkLog written and read back has the caller's
\* description, duration, startTime and activity.
C4_RoundTripExact ==
    (tpc = "loaded" /\ orig # None) =>
        /\ Val(wl).description = Val(orig).description
        /\ Val(wl).duration = Val(orig).duration
        /\ Val(wl).startTime = Val(orig).startTime
        /\ Val(wl).activity = Val(orig).activity

\* C4 as amended: a WorkLog written, stored by the remote and read back has
\* the caller's description, duration and activity, and the caller's
\* startTime with its seconds cut off.
C4_RoundTripToWholeMinute ==
    (tpc = "loaded" /\ orig # None) =>
        /\ Val(wl).description = Val(orig).description
        /\ Val(wl).duration = Val(orig).duration
        /\ Val(wl).startTime = Some(WholeMinute(Val(Val(orig).startTime)))
        /\ Val(wl).activity = Val(orig).activity

\* the activity "%22" written at 10:30:15 has come back as "%22" at 10:30:00
C4_Witness ==
    /\ tpc = "loaded"
    /\ orig # None
    /\ Val(orig).activity = Some(<<37, 50, 50>>)
    /\ Val(orig).startTime = Some(37815)
    /\ Val(wl).activity = Some(<<37, 50, 50>>)
    /\ Val(wl).startTime = Some(37800)

\* the text of a key after its first six characters
AfterPrefix(key) == SubSeq(key, 7, Len(key))

\* C5: a WorkLog read from a record with issue.id and no issue.key has the
\* key "ISSUE-" followed by the decimal id; writing it never raises, emits
\* issueId equal to the id and no issueKey, and asks the issue lookup nothing.
C5_SentinelKeyWritesIssueId ==
    /\ (tpc \in {"loaded", "have_data"} /\ keyOrigin = "issue.id") =>
          LET key == Val(Val(wl).key)
          IN  /\ StartsWith(key, ISSUE_PREFIX)
              /\ IsIntLiteral(AfterPrefix(key))
              /\ StrToInt(AfterPrefix(key)) = Val(wire).issue.id
    /\ (tpc = "have_data" /\ keyOrigin = "issue.id") =>
          /\ "issueId" \in DOMAIN Val(data)
          /\ Val(data).issueId = JInt(Val(wire).issue.id)
          /\ "issueKey" \notin DOMAIN Val(data)
          /\ lookups = <<>>
    /\ (tpc = "raised" /\ texc = "ValueError") => keyOrigin # "issue.id"

\* the record with issue.id -5 was read as "ISSUE--5" and written as issueId -5
C5_Witness ==
    /\ tpc = "have_data"
    /\ keyOrigin = "issue.id"
    /\ Val(wire).issue.id = -5
    /\ Val(Val(wl).key) = <<73, 83, 83, 85, 69, 45, 45, 53>>
    /\ Val(data).issueId = JInt(-5)

\* C6 as claimed: writing a WorkLog whose non-empty key was read from
\* issue.key or supplied by the caller asks the issue lookup once, for that
\* key, and emits either the looked-up id as issueId or the key as issueKey,
\* never both and never an id decoded from the key.
C6_RealKeyIsResolved ==
    (/\ tpc \in {"have_data", "raised"}
     /\ keyOrigin \in {"issue.key", "caller"}
     /\ Truthy(Val(Val(wl).key))) =>
        /\ tpc = "have_data"
        /\ lookups = <<Val(Val(wl).key)>>
        /\ LET d == Val(data)
           IN  \/ /\ "issueId" \in DOMAIN d
                  /\ "str" \in DOMAIN d.issueId
                  /\ "issueKey" \notin DOMAIN d
               \/ /\ "issueKey" \in DOMAIN d
                  /\ d.issueKey = Val(Val(wl).key)
                  /\ "issueId" \notin DOMAIN d

\* C10 as claimed: every WorkLog the read direction produces has
\* endTime - startTime = duration, duration >= 0 and startTime <= endTime.
C10_LoadedTimesConsistent ==
    tpc = "loaded" =>
        LET w == Val(wl)
        IN  /\ Val(w.endTime) - Val(w.startTime) = Val(w.duration)
            /\ Val(w.duration) >= 0
            /\ Val(w.startTime) <= Val(w.endTime)

-----------------------------------------------------------------------------
(* Properties of the mutation client, checked under SpecMutation *)

\* C3 as claimed: the WorkLog's second_id is set exactly when the remote
\* store holds a record of it.
C3_SecondIdIffStored == (worklog.second_id # None) <=> (remote # {})

\* C7 as claimed: add_worklog sends exactly one POST, with no attributes and
\* no issue field for a WorkLog without activity and key; on 200 it returns
\* True and second_id is the tempoWorklogId of the answer; on any other status
\* it returns False and the WorkLog is as it was; it never raises.
C7_CreateDecidedByStatus ==
    (lastCall # None /\ Val(lastCall).op = "add") =>
        LET c == Val(lastCall)
        IN  /\ Len(sent) = 1
            /\ sent[1].method = "POST"
            /\ c.before.activity = None => "attributes" \notin DOMAIN Val(sent[1].json)
            /\ c.before.key = None =>
                  /\ "issueId" \notin DOMAIN Val(sent[1].json)
                  /\ "issueKey" \notin DOMAIN Val(sent[1].json)
            /\ IF c.status = HTTP_OK
               THEN /\ ret = "True"
                    /\ worklog = [c.before EXCEPT !.second_id = c.resp_id]
               ELSE /\ ret = "False"
                    /\ worklog = c.before

\* C8 as claimed: update_worklog on a WorkLog whose second_id is s sends
\* exactly one PUT to the uri of s; on 200 it returns True and second_id is
\* the tempoWorklogId of the answer; otherwise it returns False and second_id
\* is still s; it never raises.
C8_UpdateDecidedByStatus ==
    (lastCall # None /\ Val(lastCall).op = "update" /\ Val(lastCall).before.second_id # None) =>
        LET c == Val(lastCall)
        IN  /\ Len(sent) = 1
            /\ sent[1].method = "PUT"
            /\ sent[1].uri = WorklogUri(c.before.second_id)
            /\ IF c.status = HTTP_OK
               THEN /\ ret = "True"
                    /\ worklog.second_id = c.resp_id
               ELSE /\ ret = "False"
                    /\ worklog.second_id = c.before.second_id

\* C9 as claimed: delete_worklog sends exactly one DELETE to the uri of
\* second_id and returns True exactly on a 2xx status.
C9_DeleteTrueOn2xxOnly ==
    (lastCall # None /\ Val(lastCall).op = "delete") =>
        /\ Len(sent) = 1
        /\ sent[1].method = "DELETE"
        /\ sent[1].uri = WorklogUri(worklog.second_id)
        /\ ret \in {"True", "False"}
        /\ ret = "True" <=> Val(lastCall).status \in 200..299

\* C9 as amended: delete_worklog sends exactly one DELETE to the uri of
\* second_id, never raises on a status, and returns True exactly when the
\* status is below 400: on every 1xx, 2xx and 3xx, and on no 4xx or 5xx.
C9_DeleteTrueBelow400 ==
    (lastCall # None /\ Val(lastCall).op = "delete") =>
        /\ Len(sent) = 1
        /\ sent[1].method = "DELETE"
        /\ sent[1].uri = WorklogUri(worklog.second_id)
        /\ ret \in {"True", "False"}
        /\ ret = "True" <=> Val(lastCall).status < 400

\* a DELETE answered 304 has returned True
C9_Witness ==
    /\ lastCall # None
    /\ Val(lastCall).op = "delete"
    /\ Val(lastCall).status = 304
    /\ Len(sent) = 1
    /\ ret = "True"

=============================================================================
